---- MODULE Spec2Model ----
(***************************************************************************)
(* Model of Scripts/app_imac_pro.py: the cached link discovery             *)
(* (obter_links_download), the download-and-bundle pipeline                *)
(* (processar_downloads) and the button handler that drives them.          *)
(* Strings the code inspects (urls, hrefs, anchor texts, terms) are        *)
(* sequences of one-character strings; names the code only copies          *)
(* (filenames, origins) are plain strings.                                 *)
(***************************************************************************)
EXTENDS Integers, Sequences, FiniteSets, TLC

\* ttl of the st.cache_data decorator
TTL == 3600

\* the clock stops advancing past this value
MaxNow == 5401

\* longest list handed directly to processar_downloads in SpecPipeline
MaxLinks == 2

(***************************************************************************)
(* String literals                                                         *)
(***************************************************************************)
URL_LICENCIAMENTO == <<"h","t","t","p","s",":","/","/","i","m","a","c",".","a","c",".","g","o","v",".","b","r","/","l","i","c","e","n","c","i","a","m","e","n","t","o","/">>

URL_FISCALIZACAO == <<"h","t","t","p","s",":","/","/","i","m","a","c",".","a","c",".","g","o","v",".","b","r","/","f","i","s","c","a","l","i","z","a","c","a","o","-","a","u","t","u","a","c","o","e","s","/">>

TERMO_SUPRESSAO == <<"S","U","P","R","E","S","S","A","O">>

TERMO_USO == <<"U","S","O","-","A","L","T","E","R","N","A","T","I","V","O">>

TERMO_EMB2025 == <<"E","m","b","a","r","g","o","s","_","A","d","m","_","I","M","A","C","_","2","0","2","5">>

TERMO_EMB2024 == <<"E","m","b","a","r","g","o","s","_","a","d","m","_","I","M","A","C","_","2","0","2","4">>

EXT_ZIP == <<".","z","i","p">>

EXT_RAR == <<".","r","a","r">>

H_SUP_PDF == <<"s","u","p","r","e","s","s","a","o",".","p","d","f">>

H_DOC_ZIP == <<"d","o","c","s","/","a",".","z","i","p">>

T_SUP == <<" ","S","u","p","r","e","s","s","a","o"," ">>

H_SUP_RAR_ABS == <<"h","t","t","p","s",":","/","/","c","d","n",".","a","c",".","g","o","v",".","b","r","/","S","U","P","R","E","S","S","A","O",".","R","A","R">>

H_USO_ZIP == <<"/","u","p","/","u","s","o","-","a","l","t","e","r","n","a","t","i","v","o",".","z","i","p">>

H_USO_BAD == <<"/","/","[","u","s","o","-","a","l","t","e","r","n","a","t","i","v","o",".","z","i","p">>

H_OUTRO == <<"o","u","t","r","o",".","z","i","p">>

H_EMB2025 == <<"E","m","b","a","r","g","o","s","_","A","d","m","_","I","M","A","C","_","2","0","2","5",".","z","i","p">>

H_EMB2024 == <<"d","/","e","m","b","a","r","g","o","s","_","a","d","m","_","i","m","a","c","_","2","0","2","4",".","Z","I","P">>

H_EMB2024_Q == <<"e","m","b","a","r","g","o","s","_","a","d","m","_","i","m","a","c","_","2","0","2","4",".","z","i","p","?","v","=","2">>

T_EMPTY == <<>>

(***************************************************************************)
(* str.upper / str.lower / str.strip / in / endswith                       *)
(***************************************************************************)
LowerAlpha == <<"a","b","c","d","e","f","g","h","i","j","k","l","m","n","o","p","q","r","s","t","u","v","w","x","y","z">>

UpperAlpha == <<"A","B","C","D","E","F","G","H","I","J","K","L","M","N","O","P","Q","R","S","T","U","V","W","X","Y","Z">>

UpperChar(c) ==
  IF \E k \in 1..26 : LowerAlpha[k] = c
  THEN UpperAlpha[CHOOSE k \in 1..26 : LowerAlpha[k] = c]
  ELSE c

LowerChar(c) ==
  IF \E k \in 1..26 : UpperAlpha[k] = c
  THEN LowerAlpha[CHOOSE k \in 1..26 : UpperAlpha[k] = c]
  ELSE c

upper(s) == [k \in 1..Len(s) |-> UpperChar(s[k])]

lower(s) == [k \in 1..Len(s) |-> LowerChar(s[k])]

\* sub in s
Contains(s, sub) ==
  \E k \in 0..(Len(s) - Len(sub)) : SubSeq(s, k + 1, k + Len(sub)) = sub

endswith(s, suffix) ==
  /\ Len(s) >= Len(suffix)
  /\ SubSeq(s, Len(s) - Len(suffix) + 1, Len(s)) = suffix

RECURSIVE lstrip(_)
lstrip(s) == IF s # <<>> /\ Head(s) = " " THEN lstrip(Tail(s)) ELSE s

RECURSIVE rstrip(_)
rstrip(s) ==
  IF s # <<>> /\ s[Len(s)] = " " THEN rstrip(SubSeq(s, 1, Len(s) - 1)) ELSE s

strip(s) == rstrip(lstrip(s))

(***************************************************************************)
(* urllib.parse.urljoin, for the forms of href the pages below carry:      *)
(* absolute (scheme present), network-path ("//host/..."), absolute path   *)
(* ("/...") and relative path.  urlsplit raises ValueError when the        *)
(* netloc has one square bracket without the other.                        *)
(***************************************************************************)
IndexOf(s, c, from) ==
  IF \E k \in from..Len(s) : s[k] = c
  THEN CHOOSE k \in from..Len(s) : s[k] = c /\ \A m \in from..(k - 1) : s[m] # c
  ELSE 0

LastIndexOf(s, c) ==
  IF \E k \in 1..Len(s) : s[k] = c
  THEN CHOOSE k \in 1..Len(s) : s[k] = c /\ \A m \in (k + 1)..Len(s) : s[m] # c
  ELSE 0

IsLetter(c) == \E k \in 1..26 : LowerAlpha[k] = c \/ UpperAlpha[k] = c

\* length of the "scheme:" prefix, 0 when the url has none
SchemeLen(u) ==
  LET colon == IndexOf(u, ":", 1)
  IN IF colon > 1 /\ \A k \in 1..(colon - 1) : IsLetter(u[k]) THEN colon ELSE 0

AfterScheme(u) == SubSeq(u, SchemeLen(u) + 1, Len(u))

HasNetloc(u) == Len(AfterScheme(u)) >= 2 /\ SubSeq(AfterScheme(u), 1, 2) = <<"/", "/">>

\* the netloc runs from after "//" to the next "/"
Netloc(u) ==
  LET r == AfterScheme(u)
      slash == IndexOf(r, "/", 3)
  IN IF slash = 0 THEN SubSeq(r, 3, Len(r)) ELSE SubSeq(r, 3, slash - 1)

\* scheme://netloc of a url that has both
Origin(u) == SubSeq(u, 1, SchemeLen(u) + 2 + Len(Netloc(u)))

UrljoinRaises(base, href) ==
  /\ HasNetloc(href)
  /\ Contains(Netloc(href), <<"[">>) # Contains(Netloc(href), <<"]">>)

urljoin(base, href) ==
  IF SchemeLen(href) > 0 THEN href
  ELSE IF HasNetloc(href) THEN SubSeq(base, 1, SchemeLen(base)) \o href
  ELSE IF href # <<>> /\ Head(href) = "/" THEN Origin(base) \o href
  ELSE SubSeq(base, 1, LastIndexOf(base, "/")) \o href

(***************************************************************************)
(* Configuration of obter_links_download                                   *)
(***************************************************************************)
\* alvos is a dict; iteration follows insertion order
tarefas ==
  << [nome |-> "LICENCIAMENTO", url |-> URL_LICENCIAMENTO,
      alvos |-> << [termo |-> TERMO_SUPRESSAO, nome_final |-> "imac_supressao.zip"],
                   [termo |-> TERMO_USO, nome_final |-> "imac_uso_alternativo.zip"] >>],
     [nome |-> "FISCALIZACAO", url |-> URL_FISCALIZACAO,
      alvos |-> << [termo |-> TERMO_EMB2025, nome_final |-> "imac_embargos_2025.zip"],
                   [termo |-> TERMO_EMB2024, nome_final |-> "imac_embargos_2024.zip"] >>] >>

(***************************************************************************)
(* What the remote site may answer: the anchors carrying an href of a      *)
(* page, or a failed request.                                              *)
(***************************************************************************)
A_SUP_PDF == [href |-> H_SUP_PDF, text |-> T_SUP]

A_DOC == [href |-> H_DOC_ZIP, text |-> T_SUP]

A_SUP_RAR == [href |-> H_SUP_RAR_ABS, text |-> T_EMPTY]

A_USO == [href |-> H_USO_ZIP, text |-> T_EMPTY]

A_USO_BAD == [href |-> H_USO_BAD, text |-> T_EMPTY]

A_OUTRO == [href |-> H_OUTRO, text |-> T_EMPTY]

A_EMB2025 == [href |-> H_EMB2025, text |-> T_EMPTY]

A_EMB2024 == [href |-> H_EMB2024, text |-> T_EMPTY]

A_EMB2024_Q == [href |-> H_EMB2024_Q, text |-> T_EMPTY]

PagesLic ==
  { <<A_SUP_PDF, A_DOC, A_SUP_RAR, A_USO>>,
    <<A_SUP_RAR, A_DOC>>,
    <<A_DOC, A_USO_BAD, A_USO>>,
    <<A_OUTRO>> }

PagesFisc ==
  { <<A_EMB2025, A_EMB2024>>,
    <<A_EMB2024_Q, A_EMB2024>>,
    <<>> }

Pages(k) == IF k = 1 THEN PagesLic ELSE PagesFisc

\* status "timeout": requests.get raised; "404": raise_for_status raises
Responses(k) ==
  { [status |-> "timeout", anchors |-> <<>>] }
  \cup { [status |-> "404", anchors |-> IF k = 1 THEN <<A_DOC>> ELSE <<A_EMB2025>>] }
  \cup { [status |-> "200", anchors |-> p] : p \in Pages(k) }

(***************************************************************************)
(* obter_links_download: the body under the cache decorator                *)
(***************************************************************************)
\* a comparison that respects case
match_found_cs(termo, href, text) == Contains(href, termo) \/ Contains(text, termo)

match_found(termo, href, text) ==
  Contains(upper(href), upper(termo)) \/ Contains(upper(text), upper(termo))

is_zip(href) == endswith(lower(href), EXT_ZIP) \/ endswith(lower(href), EXT_RAR)

\* for link in links: ... break   (one term, anchors from position k on)
RECURSIVE ScanLinks(_, _, _, _)
ScanLinks(tarefa, alvo, links, k) ==
  IF k > Len(links) THEN [emit |-> <<>>, raised |-> FALSE]
  ELSE LET href == links[k].href
           text == strip(links[k].text)
       IN IF match_found(alvo.termo, href, text) /\ is_zip(href)
          THEN IF UrljoinRaises(tarefa.url, href)
               THEN [emit |-> <<>>, raised |-> TRUE]
               ELSE [emit |-> << [url |-> urljoin(tarefa.url, href),
                                  filename |-> alvo.nome_final,
                                  origem |-> tarefa.nome] >>,
                     raised |-> FALSE]
          ELSE ScanLinks(tarefa, alvo, links, k + 1)

\* for termo, nome_final in tarefa['alvos'].items(): ...  (terms from j on);
\* links found before an exception stay appended to the shared list
RECURSIVE ScanAlvos(_, _, _, _)
ScanAlvos(tarefa, links, acc, j) ==
  IF j > Len(tarefa.alvos) THEN [links_para_baixar |-> acc, raised |-> FALSE]
  ELSE LET r == ScanLinks(tarefa, tarefa.alvos[j], links, 1)
       IN IF r.raised
          THEN [links_para_baixar |-> acc, raised |-> TRUE]
          ELSE ScanAlvos(tarefa, links, acc \o r.emit, j + 1)

\* the try block without its except clause: the exception leaves the function
ProcessTarefaNoExcept(acc, tarefa, resp) ==
  IF resp.status # "200"
  THEN [links_para_baixar |-> acc, erro |-> TRUE, fault |-> TRUE]
  ELSE LET s == ScanAlvos(tarefa, resp.anchors, acc, 1)
       IN [links_para_baixar |-> s.links_para_baixar, erro |-> s.raised, fault |-> s.raised]

\* one iteration of "for tarefa in tarefas": try ... except Exception: continue
ProcessTarefa(acc, tarefa, resp) ==
  IF resp.status # "200"
  THEN [links_para_baixar |-> acc, erro |-> TRUE, fault |-> FALSE]
  ELSE LET s == ScanAlvos(tarefa, resp.anchors, acc, 1)
       IN [links_para_baixar |-> s.links_para_baixar, erro |-> s.raised, fault |-> FALSE]

(***************************************************************************)
(* st.cache_data(ttl=3600): one slot, no arguments in the key              *)
(***************************************************************************)
NoEntry == [result |-> <<>>, computedAt |-> -1]

\* a cache that treats an empty list as "nothing to keep"
CacheValidNonEmpty(entry, t) ==
  entry # NoEntry /\ entry.result # <<>> /\ t - entry.computedAt < TTL

CacheValid(entry, t) == entry # NoEntry /\ t - entry.computedAt < TTL

\* a store that extends the previous entry
CacheStoreMerge(old, result, t) == [result |-> old.result \o result, computedAt |-> t]

CacheStore(old, result, t) == [result |-> result, computedAt |-> t]

(***************************************************************************)
(* processar_downloads                                                     *)
(***************************************************************************)
\* how one download may end: completed; the request failed (network error or
\* raise_for_status) before the file was opened; the copy failed part-way
Outcomes == {"ok", "request_failed", "copy_failed"}

\* open(path, 'wb') creates or truncates the file
WriteFile(dir, fname, content) ==
  {f \in dir : f.name # fname} \cup {[name |-> fname, content |-> content]}

\* a loop body that logs nothing when the download fails
BaixarItemSilent(dir, log, item, outcome) ==
  IF outcome = "ok"
  THEN [dir |-> WriteFile(dir, item.filename, "full"),
        log |-> Append(log, [ok |-> TRUE, fname |-> item.filename, origem |-> item.origem])]
  ELSE [dir |-> dir, log |-> log]

\* the try/except of the loop body
BaixarItem(dir, log, item, outcome) ==
  IF outcome = "ok"
  THEN [dir |-> WriteFile(dir, item.filename, "full"),
        log |-> Append(log, [ok |-> TRUE, fname |-> item.filename, origem |-> item.origem])]
  ELSE [dir |-> IF outcome = "copy_failed"
                THEN WriteFile(dir, item.filename, "partial")
                ELSE dir,
        log |-> Append(log, [ok |-> FALSE, fname |-> item.filename, origem |-> "-"])]

\* progresso.progress((idx + 1) / len(lista_links)), idx counted from 0
Progresso(idx, n) == IF n = 0 THEN "ZeroDivisionError" ELSE <<idx + 1, n>>

NoArchive == [valid |-> FALSE, files |-> {}]

\* a bundler that produces nothing for an empty directory
make_archive_skip_empty(dir) ==
  IF dir = {} THEN NoArchive ELSE [valid |-> TRUE, files |-> dir]

\* shutil.make_archive(format='zip', root_dir=download_dir)
make_archive(dir) == [valid |-> TRUE, files |-> dir]

(***************************************************************************)
(* The button handler                                                      *)
(***************************************************************************)
\* a handler that always goes on to the pipeline
NaoHaLinksNever(ls) == FALSE

\* if not links
NaoHaLinks(ls) == ls = <<>>

\* rmtree outside a try block
RmtreeNoExcept(ok) == [removed |-> ok, aviso |-> FALSE, fault |-> ~ok]

\* try: shutil.rmtree(temp_folder) except Exception: logger.warning(...)
Rmtree(ok) == [removed |-> ok, aviso |-> ~ok, fault |-> FALSE]

(***************************************************************************)
(* State                                                                   *)
(***************************************************************************)
VARIABLES
  now,               \* the clock
  cache,             \* the single st.cache_data entry of obter_links_download
  pc,                \* position of the running script
  ui,                \* what the status widget shows
  callStart,         \* clock value when obter_links_download was called
  i,                 \* obter_links_download: index of the next tarefa
  links_para_baixar, \* obter_links_download: the list being built
  fetched,           \* responses received by the computation in progress
  erros,             \* source names for which that computation called logger.error
  requests,          \* page requests sent per source by the current call
  computed,          \* result and time of the last completed computation
  replaced,          \* the last store overwrote an existing entry
  links,             \* handler: value returned by obter_links_download
  lista_links,       \* processar_downloads: its argument
  idx,               \* processar_downloads: number of items already handled
  download_dir,      \* files inside temp_dir/dados_imac
  log_execucao,      \* processar_downloads: the outcome log
  progresso,         \* last value given to the progress bar
  attempts,          \* urls requested by the download loop, in order
  outcomes,          \* how each of those requests ended
  temp_dir,          \* "none", "exists" or "removed"
  caminho_zip,       \* the archive written under temp_dir
  delivered,         \* archive bytes read into the download button
  aviso              \* logger.warning was called by the cleanup

vars == <<now, cache, pc, ui, callStart, i, links_para_baixar, fetched, erros,
          requests, computed, replaced, links, lista_links, idx, download_dir,
          log_execucao, progresso, attempts, outcomes, temp_dir, caminho_zip,
          delivered, aviso>>

discoveryVars == <<i, links_para_baixar, fetched, erros, computed, replaced>>

pipelineVars == <<lista_links, idx, download_dir, log_execucao, progresso,
                  attempts, outcomes, temp_dir, caminho_zip>>

NoRequests == [k \in 1..Len(tarefas) |-> 0]

\* the clock advances by about half a ttl, so that two calls may be less
\* than, exactly, or more than one ttl apart
TickSteps == {TTL \div 2 - 1, TTL \div 2, TTL \div 2 + 1}

FreshProcess ==
  /\ cache = NoEntry
  /\ pc = "idle"
  /\ ui = "none"
  /\ callStart = 0
  /\ i = 1
  /\ links_para_baixar = <<>>
  /\ fetched = <<>>
  /\ erros = {}
  /\ requests = NoRequests
  /\ computed = NoEntry
  /\ replaced = FALSE
  /\ links = <<>>
  /\ lista_links = <<>>
  /\ idx = 0
  /\ download_dir = {}
  /\ log_execucao = <<>>
  /\ progresso = <<0, 1>>
  /\ attempts = <<>>
  /\ outcomes = <<>>
  /\ temp_dir = "none"
  /\ caminho_zip = NoArchive
  /\ delivered = NoArchive
  /\ aviso = FALSE

Init == now = 0 /\ FreshProcess

(***************************************************************************)
(* The script run started by the button                                    *)
(***************************************************************************)
\* st.button(...) pressed: the script runs from the top with fresh locals
Click ==
  /\ pc = "idle"
  /\ pc' = "obter"
  /\ ui' = "running"
  /\ callStart' = now
  /\ requests' = NoRequests
  /\ links' = <<>>
  /\ lista_links' = <<>>
  /\ idx' = 0
  /\ download_dir' = {}
  /\ log_execucao' = <<>>
  /\ progresso' = <<0, 1>>
  /\ attempts' = <<>>
  /\ outcomes' = <<>>
  /\ temp_dir' = "none"
  /\ caminho_zip' = NoArchive
  /\ delivered' = NoArchive
  /\ aviso' = FALSE
  /\ UNCHANGED <<now, cache, discoveryVars>>

\* links = obter_links_download(), entry still valid: the body does not run
CacheHit ==
  /\ pc = "obter"
  /\ CacheValid(cache, now)
  /\ links' = cache.result
  /\ pc' = "decide"
  /\ UNCHANGED <<now, cache, ui, callStart, discoveryVars, requests,
                 pipelineVars, delivered, aviso>>

\* links = obter_links_download(), no valid entry: the body starts
CacheMiss ==
  /\ pc = "obter"
  /\ ~CacheValid(cache, now)
  /\ pc' = "fetch"
  /\ i' = 1
  /\ links_para_baixar' = <<>>
  /\ fetched' = <<>>
  /\ erros' = {}
  /\ UNCHANGED <<now, cache, ui, callStart, requests, computed, replaced, links,
                 pipelineVars, delivered, aviso>>

\* one iteration of the loop over tarefas: request, parse, scan
FetchTarefa ==
  /\ pc = "fetch"
  /\ i <= Len(tarefas)
  /\ \E resp \in Responses(i) :
       LET r == ProcessTarefa(links_para_baixar, tarefas[i], resp)
       IN /\ links_para_baixar' = r.links_para_baixar
          /\ erros' = IF r.erro THEN erros \cup {tarefas[i].nome} ELSE erros
          /\ fetched' = Append(fetched, resp)
          /\ pc' = IF r.fault THEN "fault" ELSE "fetch"
  /\ requests' = [requests EXCEPT ![i] = @ + 1]
  /\ i' = i + 1
  /\ UNCHANGED <<now, cache, ui, callStart, computed, replaced, links,
                 pipelineVars, delivered, aviso>>

\* return links_para_baixar: the decorator stores the value and hands it back;
\* the locals of the body are gone
Store ==
  /\ pc = "fetch"
  /\ i > Len(tarefas)
  /\ cache' = CacheStore(cache, links_para_baixar, now)
  /\ computed' = [result |-> links_para_baixar, computedAt |-> now]
  /\ replaced' = (cache # NoEntry)
  /\ links' = cache'.result
  /\ pc' = "decide"
  /\ i' = 1
  /\ links_para_baixar' = <<>>
  /\ fetched' = <<>>
  /\ erros' = {}
  /\ UNCHANGED <<now, ui, callStart, requests, pipelineVars, delivered, aviso>>

\* if not links: status.update(state="error"); st.error(...)
NoLinks ==
  /\ pc = "decide"
  /\ NaoHaLinks(links)
  /\ ui' = "error"
  /\ pc' = "idle"
  /\ UNCHANGED <<now, cache, callStart, discoveryVars, requests, links,
                 pipelineVars, delivered, aviso>>

\* else: zip_path, logs, temp_folder = processar_downloads(links)
CallPipeline ==
  /\ pc = "decide"
  /\ ~NaoHaLinks(links)
  /\ lista_links' = links
  /\ pc' = "mkdtemp"
  /\ UNCHANGED <<now, cache, ui, callStart, discoveryVars, requests, links, idx,
                 download_dir, log_execucao, progresso, attempts, outcomes,
                 temp_dir, caminho_zip, delivered, aviso>>

(***************************************************************************)
(* processar_downloads                                                     *)
(***************************************************************************)
\* mkdtemp, mkdir, empty log, st.progress(0)
Mkdtemp ==
  /\ pc = "mkdtemp"
  /\ temp_dir' = "exists"
  /\ download_dir' = {}
  /\ log_execucao' = <<>>
  /\ idx' = 0
  /\ progresso' = <<0, 1>>
  /\ pc' = "loop"
  /\ UNCHANGED <<now, cache, ui, callStart, discoveryVars, requests, links,
                 lista_links, attempts, outcomes, caminho_zip, delivered, aviso>>

\* one iteration of "for idx, item in enumerate(lista_links)"
Download ==
  /\ pc = "loop"
  /\ idx < Len(lista_links)
  /\ \E o \in Outcomes :
       LET item == lista_links[idx + 1]
           r == BaixarItem(download_dir, log_execucao, item, o)
           p == Progresso(idx, Len(lista_links))
       IN /\ download_dir' = r.dir
          /\ log_execucao' = r.log
          /\ attempts' = Append(attempts, item.url)
          /\ outcomes' = Append(outcomes, o)
          /\ IF p = "ZeroDivisionError"
             THEN pc' = "fault" /\ UNCHANGED progresso
             ELSE pc' = "loop" /\ progresso' = p
  /\ idx' = idx + 1
  /\ UNCHANGED <<now, cache, ui, callStart, discoveryVars, requests, links,
                 lista_links, temp_dir, caminho_zip, delivered, aviso>>

\* shutil.make_archive(...); return caminho_zip, log_execucao, temp_dir
MakeArchive ==
  /\ pc = "loop"
  /\ idx >= Len(lista_links)
  /\ caminho_zip' = make_archive(download_dir)
  /\ pc' = "returned"
  /\ UNCHANGED <<now, cache, ui, callStart, discoveryVars, requests, links,
                 lista_links, idx, download_dir, log_execucao, progresso,
                 attempts, outcomes, temp_dir, delivered, aviso>>

(***************************************************************************)
(* Back in the handler                                                     *)
(***************************************************************************)
\* status "complete"; with open(zip_path, "rb") as fp: st.download_button(data=fp)
\* the widget reads the whole file when it is created
Handoff ==
  /\ pc = "returned"
  /\ ui' = "complete"
  /\ delivered' = IF temp_dir = "exists" THEN caminho_zip ELSE NoArchive
  /\ pc' = "cleanup"
  /\ UNCHANGED <<now, cache, callStart, discoveryVars, requests, links,
                 pipelineVars, aviso>>

\* try: shutil.rmtree(temp_folder) except Exception: logger.warning(...)
Cleanup ==
  /\ pc = "cleanup"
  /\ \E ok \in BOOLEAN :
       LET r == Rmtree(ok)
       IN /\ temp_dir' = IF r.removed THEN "removed" ELSE temp_dir
          /\ aviso' = r.aviso
          /\ pc' = IF r.fault THEN "fault" ELSE "idle"
  /\ UNCHANGED <<now, cache, ui, callStart, discoveryVars, requests, links,
                 lista_links, idx, download_dir, log_execucao, progresso,
                 attempts, outcomes, caminho_zip, delivered>>

(***************************************************************************)
(* Environment                                                             *)
(***************************************************************************)
\* time passes between runs and while page requests are outstanding
Tick ==
  /\ pc \in {"idle", "fetch"}
  /\ \E d \in TickSteps : now + d <= MaxNow /\ now' = now + d
  /\ UNCHANGED <<cache, pc, ui, callStart, discoveryVars, requests, links,
                 pipelineVars, delivered, aviso>>

\* the server process is restarted: everything held in memory is lost
Restart ==
  /\ ~(cache = NoEntry /\ pc = "idle" /\ ui = "none")
  /\ cache' = NoEntry
  /\ pc' = "idle"
  /\ ui' = "none"
  /\ callStart' = 0
  /\ i' = 1
  /\ links_para_baixar' = <<>>
  /\ fetched' = <<>>
  /\ erros' = {}
  /\ requests' = NoRequests
  /\ computed' = NoEntry
  /\ replaced' = FALSE
  /\ links' = <<>>
  /\ lista_links' = <<>>
  /\ idx' = 0
  /\ download_dir' = {}
  /\ log_execucao' = <<>>
  /\ progresso' = <<0, 1>>
  /\ attempts' = <<>>
  /\ outcomes' = <<>>
  /\ temp_dir' = "none"
  /\ caminho_zip' = NoArchive
  /\ delivered' = NoArchive
  /\ aviso' = FALSE
  /\ UNCHANGED now

Next ==
  \/ Click
  \/ CacheHit
  \/ CacheMiss
  \/ FetchTarefa
  \/ Store
  \/ NoLinks
  \/ CallPipeline
  \/ Mkdtemp
  \/ Download
  \/ MakeArchive
  \/ Handoff
  \/ Cleanup
  \/ Tick
  \/ Restart

Spec == Init /\ [][Next]_vars

(***************************************************************************)
(* processar_downloads called on its own with an arbitrary list            *)
(***************************************************************************)
LinkPool ==
  { [url |-> urljoin(URL_LICENCIAMENTO, H_DOC_ZIP), filename |-> "imac_supressao.zip", origem |-> "LICENCIAMENTO"],
    [url |-> urljoin(URL_LICENCIAMENTO, H_USO_ZIP), filename |-> "imac_uso_alternativo.zip", origem |-> "LICENCIAMENTO"],
    [url |-> urljoin(URL_FISCALIZACAO, H_EMB2025), filename |-> "imac_embargos_2025.zip", origem |-> "FISCALIZACAO"] }

LinkLists == UNION { [1..n -> LinkPool] : n \in 0..MaxLinks }

InitPipeline ==
  /\ now = 0
  /\ cache = NoEntry
  /\ pc = "mkdtemp"
  /\ ui = "running"
  /\ callStart = 0
  /\ i = 1
  /\ links_para_baixar = <<>>
  /\ fetched = <<>>
  /\ erros = {}
  /\ requests = NoRequests
  /\ computed = NoEntry
  /\ replaced = FALSE
  /\ links = <<>>
  /\ lista_links \in LinkLists
  /\ idx = 0
  /\ download_dir = {}
  /\ log_execucao = <<>>
  /\ progresso = <<0, 1>>
  /\ attempts = <<>>
  /\ outcomes = <<>>
  /\ temp_dir = "none"
  /\ caminho_zip = NoArchive
  /\ delivered = NoArchive
  /\ aviso = FALSE

NextPipeline ==
  \/ Mkdtemp
  \/ Download
  \/ MakeArchive

SpecPipeline == InitPipeline /\ [][NextPipeline]_vars

(***************************************************************************)
(* What the claims speak of, stated apart from the operators above         *)
(***************************************************************************)
\* case-insensitive occurrence of term in s
OccursCI(s, term) ==
  \E k \in 1..Len(s) :
    /\ k + Len(term) - 1 <= Len(s)
    /\ \A m \in 1..Len(term) : LowerChar(s[k + m - 1]) = LowerChar(term[m])

ArchiveExt(href) ==
  /\ Len(href) >= 4
  /\ lower(SubSeq(href, Len(href) - 3, Len(href))) \in {EXT_ZIP, EXT_RAR}

Qualifies(termo, a) ==
  /\ OccursCI(a.href, termo) \/ OccursCI(strip(a.text), termo)
  /\ ArchiveExt(a.href)

\* position of the first qualifying anchor, 0 when there is none
FirstQualifying(termo, anchors) ==
  IF \E k \in 1..Len(anchors) : Qualifies(termo, anchors[k])
  THEN CHOOSE k \in 1..Len(anchors) :
         /\ Qualifies(termo, anchors[k])
         /\ \A m \in 1..(k - 1) : ~Qualifies(termo, anchors[m])
  ELSE 0

\* links in ls that belong to source k / to term j of source k
SourceLinks(ls, k) == SelectSeq(ls, LAMBDA l : l.origem = tarefas[k].nome)

TermLinks(ls, k, j) ==
  SelectSeq(ls, LAMBDA l : l.origem = tarefas[k].nome
                           /\ l.filename = tarefas[k].alvos[j].nome_final)

\* the matched links of source k on a page: per term in order, the first
\* qualifying anchor resolved against the page url
RECURSIVE MatchedFrom(_, _, _)
MatchedFrom(k, anchors, j) ==
  IF j > Len(tarefas[k].alvos) THEN <<>>
  ELSE LET q == FirstQualifying(tarefas[k].alvos[j].termo, anchors)
           this == IF q = 0 THEN <<>>
                   ELSE << [url |-> urljoin(tarefas[k].url, anchors[q].href),
                            filename |-> tarefas[k].alvos[j].nome_final,
                            origem |-> tarefas[k].nome] >>
       IN this \o MatchedFrom(k, anchors, j + 1)

MatchedLinks(k, anchors) == MatchedFrom(k, anchors, 1)

PageFailed(resp) == resp.status # "200"

\* the value obter_links_download's body yields for a list of responses
RECURSIVE ResultOf(_, _)
ResultOf(resps, k) ==
  IF k = 0 THEN <<>>
  ELSE ProcessTarefa(ResultOf(resps, k - 1), tarefas[k], resps[k]).links_para_baixar

AllRequested == \A k \in 1..Len(tarefas) : requests[k] = 1

NoneRequested == \A k \in 1..Len(tarefas) : requests[k] = 0

\* the body of obter_links_download is at "return links_para_baixar"
BodyAtReturn == pc = "fetch" /\ i > Len(tarefas)

SuccessNames == { lista_links[k].filename : k \in { m \in 1..Len(log_execucao) : log_execucao[m].ok } }

ArchiveNames == { f.name : f \in caminho_zip.files }

LoopDone == pc \in {"returned", "cleanup"} \/ (pc = "idle" /\ ui = "complete")

(***************************************************************************)
(* C1: per-source isolation in discovery.  Whatever subset of the page     *)
(* requests fails, no fault leaves obter_links_download, every source is   *)
(* requested, a source whose request failed adds nothing, a source handled *)
(* without error adds exactly its matched links, and the result is the     *)
(* sources' contributions in source order.                                 *)
(***************************************************************************)
C1_SourceIsolation ==
  /\ pc = "fetch" => Len(fetched) = i - 1
  /\ pc # "fault"
  /\ BodyAtReturn =>
       /\ Len(fetched) = Len(tarefas)
       /\ AllRequested
       /\ \A k \in 1..Len(tarefas) :
            /\ PageFailed(fetched[k]) => SourceLinks(links_para_baixar, k) = <<>>
            /\ tarefas[k].nome \notin erros =>
                 SourceLinks(links_para_baixar, k) = MatchedLinks(k, fetched[k].anchors)
       /\ links_para_baixar =
            SourceLinks(links_para_baixar, 1) \o SourceLinks(links_para_baixar, 2)

\* source 1 failed, source 2 answered, and the result is source 2's two links
C1_Witness ==
  /\ BodyAtReturn
  /\ PageFailed(fetched[1])
  /\ ~PageFailed(fetched[2])
  /\ Len(links_para_baixar) = 2
  /\ links_para_baixar = MatchedLinks(2, fetched[2].anchors)

(***************************************************************************)
(* C2: a source for which an error was raised at any point of its          *)
(* processing contributes no link to the result.                           *)
(***************************************************************************)
C2_ErroredSourceContributesNothing ==
  BodyAtReturn =>
    \A k \in 1..Len(tarefas) :
      tarefas[k].nome \in erros => SourceLinks(links_para_baixar, k) = <<>>

(***************************************************************************)
(* C3: the archive returned by processar_downloads holds exactly the files *)
(* of the links logged as successes.                                       *)
(***************************************************************************)
C3_ArchiveIsExactlySuccesses ==
  pc = "returned" => ArchiveNames = SuccessNames

(***************************************************************************)
(* C4: the download loop requests each link once, in input order, one at a *)
(* time, goes past failures, and the log has one entry per link in input   *)
(* order, marked success exactly when that download completed.             *)
(***************************************************************************)
C4_OutcomeLog ==
  /\ pc = "loop" =>
       /\ Len(attempts) = idx
       /\ Len(log_execucao) = idx
       /\ Len(outcomes) = idx
  /\ LoopDone => Len(log_execucao) = Len(lista_links)
  /\ \A k \in 1..Len(attempts) : attempts[k] = lista_links[k].url
  /\ \A k \in 1..Len(log_execucao) :
       /\ log_execucao[k].fname = lista_links[k].filename
       /\ log_execucao[k].ok <=> outcomes[k] = "ok"

\* three links, the second failed, the loop went on to the third
C4_Witness ==
  /\ pc = "returned"
  /\ Len(lista_links) >= 3
  /\ outcomes[1] = "ok" /\ outcomes[2] = "request_failed" /\ outcomes[3] = "ok"
  /\ log_execucao[1].ok /\ ~log_execucao[2].ok /\ log_execucao[3].ok

(***************************************************************************)
(* C5: idempotent cache.  A call made less than TTL after the last         *)
(* computation finished sends no page request, and returns what that       *)
(* computation returned - also when that was the empty list.               *)
(***************************************************************************)
C5_IdempotentCache ==
  /\ pc = "fetch" => computed = NoEntry \/ callStart - computed.computedAt >= TTL
  /\ \A k \in 1..Len(tarefas) : requests[k] <= 1
  /\ pc = "decide" => links = computed.result

\* a later call inside the window was served the empty result of the last
\* computation without any request
C5_Witness ==
  /\ pc = "decide"
  /\ NoneRequested
  /\ computed # NoEntry
  /\ callStart > computed.computedAt
  /\ callStart - computed.computedAt < TTL
  /\ computed.result = <<>>
  /\ links = <<>>

(***************************************************************************)
(* C6: cache refresh.  A call made with no entry, or more than TTL after   *)
(* the entry was computed, runs the body with a request to every source;   *)
(* the stored entry becomes that body's result alone, stamped with the     *)
(* current time; and the entry changes in no other way than by such a      *)
(* store after expiry or by a process restart.                             *)
(***************************************************************************)
C6_Step ==
  /\ (pc = "obter" /\ (cache = NoEntry \/ now - cache.computedAt > TTL)) =>
        \/ pc' = "fetch" /\ i' = 1 /\ links_para_baixar' = <<>>
        \/ pc' = "idle" /\ cache' = NoEntry
  /\ (pc = "fetch" /\ pc' = "decide") =>
        /\ AllRequested
        /\ cache' = [result |-> ResultOf(fetched, Len(tarefas)), computedAt |-> now]
        /\ links' = cache'.result
  /\ cache' # cache =>
        \/ cache' = NoEntry /\ pc' = "idle" /\ ui' = "none"
        \/ /\ pc = "fetch" /\ pc' = "decide"
           /\ cache = NoEntry \/ callStart - cache.computedAt >= TTL

C6_CacheRefresh == [][C6_Step]_vars

\* an expired entry has just been replaced by the result of a new computation
C6_Witness ==
  /\ pc = "decide"
  /\ AllRequested
  /\ replaced
  /\ cache.computedAt = now
  /\ now > TTL
  /\ Len(cache.result) = 1

(***************************************************************************)
(* C7: first-match selection with archive filter.  For every page fetched  *)
(* with success and every term, at most one link is emitted, it comes from *)
(* the first anchor that matches the term without regard to case (href or  *)
(* visible text) and whose href ends in .zip or .rar; when the source was  *)
(* handled without error a link is emitted exactly when such an anchor     *)
(* exists.                                                                 *)
(***************************************************************************)
C7_FirstMatch ==
  \A k \in 1..Len(fetched) :
    ~PageFailed(fetched[k]) =>
      \A j \in 1..Len(tarefas[k].alvos) :
        LET emitted == TermLinks(links_para_baixar, k, j)
            q == FirstQualifying(tarefas[k].alvos[j].termo, fetched[k].anchors)
        IN /\ Len(emitted) <= 1
           /\ Len(emitted) = 1 =>
                /\ q # 0
                /\ emitted[1].url = urljoin(tarefas[k].url, fetched[k].anchors[q].href)
           /\ tarefas[k].nome \notin erros => (Len(emitted) = 1 <=> q # 0)

\* a page whose first anchor matches by text but is a .pdf, followed by two
\* archive anchors for the same term: the second anchor of the page is taken
C7_Witness ==
  /\ Len(fetched) >= 1
  /\ ~PageFailed(fetched[1])
  /\ fetched[1].anchors = <<A_SUP_PDF, A_DOC, A_SUP_RAR, A_USO>>
  /\ Len(TermLinks(links_para_baixar, 1, 1)) = 1
  /\ TermLinks(links_para_baixar, 1, 1)[1].url = urljoin(URL_LICENCIAMENTO, H_DOC_ZIP)

(***************************************************************************)
(* C8: processar_downloads on the empty list finishes without a fault,     *)
(* requests nothing, never updates the progress fraction, and returns an   *)
(* empty log and a valid archive with no file in it.                       *)
(***************************************************************************)
C8_EmptyInput ==
  lista_links = <<>> =>
    /\ pc # "fault"
    /\ attempts = <<>>
    /\ progresso = <<0, 1>>
    /\ pc = "returned" =>
         /\ log_execucao = <<>>
         /\ caminho_zip.valid
         /\ caminho_zip.files = {}

C8_Witness == lista_links = <<>> /\ pc = "returned" /\ temp_dir = "exists"

(***************************************************************************)
(* C9: reclamation ordering.  The scratch directory is removed, or its     *)
(* removal attempted, only after the archive was read in full for the      *)
(* download button; a failed removal leaves a warning, the archive         *)
(* delivered and no fault.                                                 *)
(***************************************************************************)
C9_ReclamationOrder ==
  /\ pc = "cleanup" => delivered.valid /\ delivered = caminho_zip
  /\ (temp_dir = "removed" \/ aviso) => delivered.valid /\ delivered = caminho_zip
  /\ aviso => pc = "idle" /\ ui = "complete" /\ temp_dir = "exists"
  /\ pc = "fault" => temp_dir = "none"

\* the removal failed after the archive had been handed over
C9_Witness == aviso /\ delivered.valid /\ delivered.files # {} /\ pc = "idle"

(***************************************************************************)
(* C10: when discovery returns the empty list, fresh or from the cache,    *)
(* the run ends in the error status and the pipeline is not entered: no    *)
(* scratch directory, no download, no archive; an archive exists only in   *)
(* runs where discovery returned at least one link.                        *)
(***************************************************************************)
C10_NoLinksFound ==
  /\ pc \in {"mkdtemp", "loop", "returned", "cleanup"} => links # <<>>
  /\ (pc = "idle" /\ ui # "none" /\ links = <<>>) => ui = "error"
  /\ ui = "error" =>
       /\ links = <<>>
       /\ temp_dir = "none"
       /\ attempts = <<>>
       /\ ~caminho_zip.valid
       /\ ~delivered.valid
  /\ (caminho_zip.valid \/ delivered.valid \/ temp_dir # "none") => links # <<>>

\* the empty result came from the cache and the run ended in the error status
C10_Witness ==
  /\ pc = "idle"
  /\ ui = "error"
  /\ NoneRequested
  /\ cache # NoEntry
  /\ cache.result = <<>>

====
